---- MODULE Spec2Model ----
(***************************************************************************)
(* The configfilter data client (aryszka/configfilter): the route set      *)
(* algebra, the request handlers, the run loop with its single-slot update *)
(* relay, the HTTP filter in front of it and the LoadAll / LoadUpdate      *)
(* callers.                                                                *)
(*                                                                         *)
(* A route is [Id, Expr]: Expr stands for everything Route.String() prints *)
(* (predicates, filters, backend); the id is not part of it.  A slice is a *)
(* sequence; where two goroutines can reach the same backing array (the    *)
(* spare capacity of s.defaults) the array is modelled explicitly.         *)
(*                                                                         *)
(* pend and since are history variables: no action reads them to decide    *)
(* what the program does.                                                  *)
(***************************************************************************)
EXTENDS Integers, Sequences, FiniteSets, TLC

\* ------------------------------------------------------------- bounds
\* Longest list of routes in a request body.
MaxLen == 2
\* Longest comma separated text body of a DELETE request, in tokens.
MaxText == 2
\* Length of the custom Options.DefaultRoutes the client is built with.
MaxDefaults == 6

\* ------------------------------------------------------------- values
Name == "config"
DefaultSelfID == "__config"

SelfRoutes ==
    << [Id |-> DefaultSelfID, Expr |-> "self"],
       [Id |-> "__config__singleRoute", Expr |-> "selfSingle"] >>

errNone == "nil"
errMethodNotSupported == "method not supported"
errNotFound == "not found"
errUnsupportedMediaType == "unsupported media type"
errMissedUpdate == "missed update"
errBadRequest == "bad request"
errRead == "read failed"

\* The zero updateMessage and the zero response.
ZeroUpdate == [routes |-> <<>>, deletedIDs |-> <<>>, err |-> errNone]
ZeroResponse == [withContent |-> FALSE, routes |-> <<>>, err |-> errNone]

\* A hasData that takes every update as one with data.
hasDataAlways(m) == TRUE

hasData(m) ==
    \/ Len(m.routes) # 0
    \/ Len(m.deletedIDs) # 0
    \/ m.err # errNone

\* Route.String(): the route expression, without the id.
String(r) == r.Expr

\* ------------------------------------------------------------- route sets
HasId(s, id) == \E k \in 1..Len(s) : s[k].Id = id

FirstWithId(s, id) == s[CHOOSE k \in 1..Len(s) :
                          /\ s[k].Id = id
                          /\ \A j \in 1..(k - 1) : s[j].Id # id]

\* A uniqueRoutes that keeps every route of the list.
uniqueRoutesKeepingAll(r) == r

uniqueRoutes(r) ==
    LET u[i \in 0..Len(r)] ==
            IF i = 0 THEN <<>>
            ELSE LET before == u[i - 1]
                 IN  IF HasId(before, r[i].Id) THEN before
                     ELSE Append(before, r[i])
    IN  u[Len(r)]

removeRoutes(a, b) == SelectSeq(a, LAMBDA ai : ~HasId(b, ai.Id))

\* A changedRoutes that takes every route next has of prev as changed.
changedRoutesAlways(prev, next) ==
    LET changed[i \in 0..Len(prev)] ==
            IF i = 0 THEN <<>>
            ELSE IF HasId(next, prev[i].Id)
                 THEN Append(changed[i - 1], FirstWithId(next, prev[i].Id))
                 ELSE changed[i - 1]
    IN  changed[Len(prev)]

\* A changedRoutes that finds no route changed.
changedRoutesNever(prev, next) == <<>>

changedRoutes(prev, next) ==
    LET changed[i \in 0..Len(prev)] ==
            IF i = 0 THEN <<>>
            ELSE IF /\ HasId(next, prev[i].Id)
                    /\ String(FirstWithId(next, prev[i].Id)) # String(prev[i])
                 THEN Append(changed[i - 1], FirstWithId(next, prev[i].Id))
                 ELSE changed[i - 1]
    IN  changed[Len(prev)]

routesToIDs(r) == [i \in 1..Len(r) |-> r[i].Id]

idsToRoutes(ids, from) ==
    LET routes[i \in 0..Len(ids)] ==
            IF i = 0 THEN <<>>
            ELSE IF HasId(from, ids[i])
                 THEN Append(routes[i - 1], FirstWithId(from, ids[i]))
                 ELSE routes[i - 1]
    IN  routes[Len(ids)]

\* A replaceRoutes that reports the inserted routes and not the changed ones.
replaceRoutesWithoutChanged(prev, next) ==
    [next |-> next,
     upserted |-> removeRoutes(next, prev),
     deletedIDs |-> routesToIDs(removeRoutes(prev, next))]

\* A replaceRoutes that reports the ids of the changed routes as deleted too.
replaceRoutesDeletingChanged(prev, next) ==
    LET upserted == removeRoutes(next, prev) \o changedRoutes(prev, next)
    IN  [next |-> next,
         upserted |-> upserted,
         deletedIDs |-> routesToIDs(removeRoutes(prev, next))
                        \o routesToIDs(changedRoutes(prev, next))]

replaceRoutes(prev, next) ==
    LET deletedRoutes == removeRoutes(prev, next)
        insertedRoutes == removeRoutes(next, prev)
        updatedRoutes == changedRoutes(prev, next)
    IN  [next |-> next,
         upserted |-> insertedRoutes \o updatedRoutes,
         deletedIDs |-> routesToIDs(deletedRoutes)]

\* An upsertRoutes that keeps the routes it had under the ids it upserts.
upsertRoutesKeepingOld(to, from) ==
    LET insertedRoutes == removeRoutes(from, to)
        updatedRoutes == changedRoutes(to, from)
        upserted == insertedRoutes \o updatedRoutes
    IN  [next |-> to \o upserted, upserted |-> upserted]

upsertRoutes(to, from) ==
    LET insertedRoutes == removeRoutes(from, to)
        updatedRoutes == changedRoutes(to, from)
        upserted == insertedRoutes \o updatedRoutes
        unchangedRoutes == removeRoutes(to, upserted)
    IN  [next |-> unchangedRoutes \o upserted, upserted |-> upserted]

\* ------------------------------------------------------------- state
VARIABLES
    defaults,      \* Spec.defaults: fixed by New
    routes,        \* Spec.routes: the working set
    updateRelay,   \* run's updateRelay: "nil" or "update" (s.update)
    updateToSend,  \* run's updateToSend
    stopClosed,    \* Close has closed s.stop
    running,       \* run has not returned
    consumer,      \* the goroutine calling LoadAll / LoadUpdate
    http,          \* the HTTP exchange ServeHTTP is answering, if any
    pend,          \* history: the updates committed since the last delivery
    since          \* history: s.routes when the consumer's last call was served

vars == <<defaults, routes, updateRelay, updateToSend, stopClosed, running,
          consumer, http, pend, since>>

\* ------------------------------------------------------------- New
\* Custom default routes: the API endpoint first, its id once more further on.
DefaultPool ==
    << [Id |-> DefaultSelfID, Expr |-> "api"], [Id |-> "d2", Expr |-> "p2"],
       [Id |-> DefaultSelfID, Expr |-> "p3"], [Id |-> "d4", Expr |-> "p4"],
       [Id |-> "d5", Expr |-> "p5"], [Id |-> "d6", Expr |-> "p6"],
       [Id |-> "d7", Expr |-> "p7"] >>

\* Options.DefaultRoutes: not set, or the first MaxDefaults custom routes.
DefaultRoutesOptions == { <<>>, SubSeq(DefaultPool, 1, MaxDefaults) }

New(o) == uniqueRoutes(IF Len(o) = 0 THEN SelfRoutes ELSE o)

\* The capacity of a slice built, as uniqueRoutes builds it, by n appends of
\* one element to a nil slice: append doubles the capacity when it is full.
GrowCap(n) ==
    LET c[i \in 0..n] ==
            IF i = 0 THEN 0
            ELSE LET before == c[i - 1]
                 IN  IF i <= before THEN before
                     ELSE IF before = 0 THEN 1 ELSE 2 * before
    IN  c[n]

\* append(s.defaults, r...) writes r into the backing array of s.defaults,
\* which every other such append shares, when r fits its spare capacity.
InPlace(r) ==
    /\ Len(r) > 0
    /\ Len(defaults) + Len(r) <= GrowCap(Len(defaults))

\* pc: where the consumer is; m: the message LoadAll received; mem: what the
\* slice LoadAll made holds after len(s.defaults); ret: what the call
\* returned; resync: the last LoadUpdate returned MissedUpdate and no LoadAll
\* has returned since.
IdleConsumer ==
    [pc |-> "idle", m |-> <<>>, mem |-> <<>>, ret |-> ZeroUpdate,
     resync |-> FALSE]

\* No exchange: ServeHTTP is not running.
NoRequest == [id |-> "", method |-> "", routes |-> <<>>, ids |-> <<>>]
NoHTTP ==
    [method |-> "", id |-> "", req |-> NoRequest, sent |-> FALSE,
     rsp |-> ZeroResponse, update |-> ZeroUpdate]

\* n: 0 when run has committed no non-empty update since it last delivered
\* one; 1 when it has committed one, the relay being empty; 2 when it has
\* committed one more, the relay being taken.  first: the update, while n is
\* 1.  waiting: LoadUpdate was blocked on s.update at each of the commits.
NoPending == [n |-> 0, first |-> ZeroUpdate, waiting |-> TRUE]

Init ==
    /\ defaults \in { New(o) : o \in DefaultRoutesOptions }
    /\ routes = <<>>
    /\ updateRelay = "nil"
    /\ updateToSend = ZeroUpdate
    /\ stopClosed = FALSE
    /\ running = TRUE
    /\ consumer = IdleConsumer
    /\ http = NoHTTP
    /\ pend = NoPending
    /\ since = <<>>

\* ------------------------------------------------------------- handlers
\* Each handler gives the new s.routes, the response and the update.
Handled(rs, rsp, update) == [routes |-> rs, rsp |-> rsp, update |-> update]

\* A getRoot that hands s.routes over and keeps none of it.
getRootDraining(req) ==
    Handled(<<>>,
            [withContent |-> TRUE, routes |-> routes \o defaults, err |-> errNone],
            ZeroUpdate)

\* A getRoot that returns s.routes alone.
getRootWithoutDefaults(req) ==
    Handled(routes,
            [withContent |-> TRUE, routes |-> routes, err |-> errNone],
            ZeroUpdate)

getRoot(req) ==
    Handled(routes,
            [withContent |-> TRUE, routes |-> routes \o defaults, err |-> errNone],
            ZeroUpdate)

\* A putRoot that does not take the default routes out of what it stores.
putRootStoringDefaults(req) ==
    LET p == replaceRoutes(routes, uniqueRoutes(req.routes))
    IN  Handled(p.next, ZeroResponse,
                [routes |-> p.upserted, deletedIDs |-> p.deletedIDs, err |-> errNone])

\* A putRoot that keeps the routes the request does not name.
putRootUpserting(req) ==
    LET rs == removeRoutes(uniqueRoutes(req.routes), defaults)
        p == upsertRoutes(routes, rs)
    IN  Handled(p.next, ZeroResponse,
                [routes |-> p.upserted, deletedIDs |-> <<>>, err |-> errNone])

putRoot(req) ==
    LET rs == removeRoutes(uniqueRoutes(req.routes), defaults)
        p == replaceRoutes(routes, rs)
    IN  Handled(p.next, ZeroResponse,
                [routes |-> p.upserted, deletedIDs |-> p.deletedIDs, err |-> errNone])

\* A patchInRoot that drops the routes the request does not name.
patchInRootReplacing(req) ==
    LET rs == removeRoutes(uniqueRoutes(req.routes), defaults)
        p == replaceRoutes(routes, rs)
    IN  Handled(p.next, ZeroResponse,
                [routes |-> p.upserted, deletedIDs |-> p.deletedIDs, err |-> errNone])

\* A patchInRoot that does not take the default routes out of what it stores.
patchInRootStoringDefaults(req) ==
    LET p == upsertRoutes(routes, uniqueRoutes(req.routes))
    IN  Handled(p.next, ZeroResponse,
                [routes |-> p.upserted, deletedIDs |-> <<>>, err |-> errNone])

patchInRoot(req) ==
    LET rs == removeRoutes(uniqueRoutes(req.routes), defaults)
        p == upsertRoutes(routes, rs)
    IN  Handled(p.next, ZeroResponse,
                [routes |-> p.upserted, deletedIDs |-> <<>>, err |-> errNone])

\* A deleteFromRoot that reports every id the request names as deleted.
deleteFromRootReportingNamed(req) ==
    LET named == uniqueRoutes(idsToRoutes(req.ids, routes) \o req.routes)
        own == removeRoutes(named, defaults)
    IN  Handled(removeRoutes(routes, own), ZeroResponse,
                [routes |-> <<>>, deletedIDs |-> routesToIDs(own), err |-> errNone])

deleteFromRoot(req) ==
    LET named == uniqueRoutes(idsToRoutes(req.ids, routes) \o req.routes)
        own == removeRoutes(named, defaults)
        rs == removeRoutes(own, removeRoutes(own, routes))
    IN  Handled(removeRoutes(routes, rs), ZeroResponse,
                [routes |-> <<>>, deletedIDs |-> routesToIDs(rs), err |-> errNone])

\* all is append(s.defaults, s.routes...) as the handler reads it.
get(req, all) ==
    LET rs == idsToRoutes(<<req.id>>, all)
    IN  IF Len(rs) = 0
        THEN Handled(routes, [ZeroResponse EXCEPT !.err = errNotFound], ZeroUpdate)
        ELSE Handled(routes,
                     [withContent |-> TRUE, routes |-> rs, err |-> errNone],
                     ZeroUpdate)

\* req.routes with the id of its first route set to the id of the path.
WithPathID(req) == [req.routes EXCEPT ![1].Id = req.id]

\* A put that does not take the default routes out of what it stores.
putStoringDefaults(req) ==
    IF Len(req.routes) # 1
    THEN Handled(routes, [ZeroResponse EXCEPT !.err = errBadRequest], ZeroUpdate)
    ELSE LET p == upsertRoutes(routes, WithPathID(req))
         IN  Handled(p.next, ZeroResponse,
                     [routes |-> p.upserted, deletedIDs |-> <<>>,
                      err |-> errNone])

\* A put that takes a request with no route as one with nothing to store.
putAcceptingNone(req) ==
    IF Len(req.routes) > 1
    THEN Handled(routes, [ZeroResponse EXCEPT !.err = errBadRequest], ZeroUpdate)
    ELSE IF Len(req.routes) = 0
    THEN Handled(routes, ZeroResponse, ZeroUpdate)
    ELSE LET rs == removeRoutes(WithPathID(req), defaults)
             p == upsertRoutes(routes, rs)
         IN  IF Len(rs) = 0
             THEN Handled(routes, ZeroResponse, ZeroUpdate)
             ELSE Handled(p.next, ZeroResponse,
                          [routes |-> p.upserted, deletedIDs |-> <<>>,
                           err |-> errNone])

put(req) ==
    IF Len(req.routes) # 1
    THEN Handled(routes, [ZeroResponse EXCEPT !.err = errBadRequest], ZeroUpdate)
    ELSE LET rs == removeRoutes(WithPathID(req), defaults)
             p == upsertRoutes(routes, rs)
         IN  IF Len(rs) = 0
             THEN Handled(routes, ZeroResponse, ZeroUpdate)
             ELSE Handled(p.next, ZeroResponse,
                          [routes |-> p.upserted, deletedIDs |-> <<>>,
                           err |-> errNone])

\* A patch that stores a route under the id of a default route.
patchStoringDefaults(req, all) ==
    LET found == idsToRoutes(<<req.id>>, all)
        p == upsertRoutes(routes, WithPathID(req))
    IN  IF Len(found) = 0
        THEN Handled(routes, [ZeroResponse EXCEPT !.err = errNotFound], ZeroUpdate)
        ELSE IF Len(req.routes) # 1
        THEN Handled(routes, [ZeroResponse EXCEPT !.err = errBadRequest], ZeroUpdate)
        ELSE Handled(p.next, ZeroResponse,
                     [routes |-> p.upserted, deletedIDs |-> <<>>, err |-> errNone])

patch(req, all) ==
    LET found == idsToRoutes(<<req.id>>, all)
        p == upsertRoutes(routes, WithPathID(req))
    IN  IF Len(found) = 0
        THEN Handled(routes, [ZeroResponse EXCEPT !.err = errNotFound], ZeroUpdate)
        ELSE IF Len(req.routes) # 1
        THEN Handled(routes, [ZeroResponse EXCEPT !.err = errBadRequest], ZeroUpdate)
        ELSE IF Len(removeRoutes(found, defaults)) = 0
        THEN Handled(routes, ZeroResponse, ZeroUpdate)
        ELSE Handled(p.next, ZeroResponse,
                     [routes |-> p.upserted, deletedIDs |-> <<>>, err |-> errNone])

\* A del that empties s.routes when it does not find the route.
delClearing(req) ==
    LET rs == idsToRoutes(<<req.id>>, routes)
    IN  IF Len(rs) = 0
        THEN Handled(<<>>, [ZeroResponse EXCEPT !.err = errNotFound], ZeroUpdate)
        ELSE Handled(removeRoutes(routes, rs), ZeroResponse,
                     [routes |-> <<>>, deletedIDs |-> routesToIDs(rs),
                      err |-> errNone])

\* A del that looks for the route among the default routes too.
delAmongAll(req) ==
    LET rs == idsToRoutes(<<req.id>>, defaults \o routes)
    IN  IF Len(rs) = 0
        THEN Handled(routes, [ZeroResponse EXCEPT !.err = errNotFound], ZeroUpdate)
        ELSE Handled(removeRoutes(routes, rs), ZeroResponse,
                     [routes |-> <<>>, deletedIDs |-> routesToIDs(rs),
                      err |-> errNone])

del(req) ==
    LET rs == idsToRoutes(<<req.id>>, routes)
    IN  IF Len(rs) = 0
        THEN Handled(routes, [ZeroResponse EXCEPT !.err = errNotFound], ZeroUpdate)
        ELSE Handled(removeRoutes(routes, rs), ZeroResponse,
                     [routes |-> <<>>, deletedIDs |-> routesToIDs(rs),
                      err |-> errNone])

handleRoot(req) ==
    CASE req.method \in {"HEAD", "GET"} -> getRoot(req)
      [] req.method \in {"PUT", "POST"} -> putRoot(req)
      [] req.method = "PATCH" -> patchInRoot(req)
      [] req.method = "DELETE" -> deleteFromRoot(req)
      [] OTHER -> Handled(routes, ZeroResponse, ZeroUpdate)

handleIndividual(req, all) ==
    CASE req.method \in {"HEAD", "GET"} -> get(req, all)
      [] req.method \in {"PUT", "POST"} -> put(req)
      [] req.method = "PATCH" -> patch(req, all)
      [] req.method = "DELETE" -> del(req)
      [] OTHER -> Handled(routes, ZeroResponse, ZeroUpdate)

handle(req, all) ==
    IF req.id = "" THEN handleRoot(req) ELSE handleIndividual(req, all)

\* Whether handling req reads append(s.defaults, s.routes...).
ReadsAll(req) == req.id # "" /\ req.method \in {"HEAD", "GET", "PATCH"}

\* ------------------------------------------------------------- filter
\* An HTTP request is [method, id, contentType, body]: id is the routeid path
\* parameter (the X-Config-RouteID header), contentType the Content-Type
\* header as its ";" separated parts, and body one of
\*   [kind |-> "eskip", routes, text |-> <<>>]  a document eskip.Parse accepts,
\*   [kind |-> "text", routes |-> <<>>, text]   one it rejects, as its tokens
\*                                              (names, "," and " "),
\*   [kind |-> "unreadable", ...]               a body whose read fails.
\* A validMethod that takes every method.
validMethodAny(method) == TRUE

validMethod(method) ==
    method \in {"OPTIONS", "HEAD", "GET", "PUT", "POST", "PATCH", "DELETE"}

canUseContent(method, id) ==
    CASE method \in {"PUT", "POST", "PATCH"} -> TRUE
      [] method = "DELETE" -> id = ""
      [] OTHER -> FALSE

\* strings.Split(contentType, ";")[0], and whether it is supported.
getContentType(contentType) ==
    LET ct == IF Len(contentType) = 0 THEN "" ELSE contentType[1]
    IN  IF ct \in {"", "text/plain", "application/eskip"}
        THEN [contentType |-> ct, err |-> errNone]
        ELSE [contentType |-> "", err |-> errUnsupportedMediaType]

\* strings.Replace(s, " ", "", -1)
StripSpaces(text) == SelectSeq(text, LAMBDA t : t # " ")

\* strings.Split(s, ","): the fields between the commas, each a token list.
SplitComma(text) ==
    LET f[i \in 0..Len(text)] ==
            IF i = 0 THEN << <<>> >>
            ELSE IF text[i] = ","
                 THEN Append(f[i - 1], <<>>)
                 ELSE [f[i - 1] EXCEPT ![Len(f[i - 1])] = Append(@, text[i])]
    IN  f[Len(text)]

\* The string a field spells: a name, the empty string, or several names run
\* together, which is the id of no route of the model.
FieldString(field) ==
    IF Len(field) = 0 THEN ""
    ELSE IF Len(field) = 1 THEN field[1]
    ELSE "runtogether"

\* A parseContent that takes what does not parse as a list of ids whatever
\* the content type says.
parseContentIgnoringType(method, contentType, body) ==
    IF body.kind = "unreadable"
    THEN [routes |-> <<>>, ids |-> <<>>, err |-> errRead]
    ELSE IF body.kind = "eskip"
    THEN [routes |-> body.routes, ids |-> <<>>, err |-> errNone]
    ELSE IF method # "DELETE"
    THEN [routes |-> <<>>, ids |-> <<>>, err |-> errBadRequest]
    ELSE LET fields == SplitComma(StripSpaces(body.text))
         IN  [routes |-> <<>>,
              ids |-> [i \in 1..Len(fields) |-> FieldString(fields[i])],
              err |-> errNone]

parseContent(method, contentType, body) ==
    IF body.kind = "unreadable"
    THEN [routes |-> <<>>, ids |-> <<>>, err |-> errRead]
    ELSE IF body.kind = "eskip"
    THEN [routes |-> body.routes, ids |-> <<>>, err |-> errNone]
    ELSE IF contentType = "application/eskip" \/ method # "DELETE"
    THEN [routes |-> <<>>, ids |-> <<>>, err |-> errBadRequest]
    ELSE LET fields == SplitComma(StripSpaces(body.text))
         IN  [routes |-> <<>>,
              ids |-> [i \in 1..Len(fields) |-> FieldString(fields[i])],
              err |-> errNone]

\* A preprocessRequest that lets routes without an id through to the root.
preprocessRequestAllowingNoID(hreq) ==
    LET none == NoRequest
        base == [none EXCEPT !.method = hreq.method, !.id = hreq.id]
        ct == getContentType(hreq.contentType)
        c == parseContent(hreq.method, ct.contentType, hreq.body)
    IN  IF ~validMethod(hreq.method)
        THEN [req |-> none, err |-> errMethodNotSupported]
        ELSE IF ~canUseContent(hreq.method, hreq.id)
        THEN [req |-> base, err |-> errNone]
        ELSE IF ct.err # errNone
        THEN [req |-> base, err |-> ct.err]
        ELSE IF c.err # errNone
        THEN [req |-> base, err |-> c.err]
        ELSE IF hreq.id # "" /\ Len(c.routes) > 1
        THEN [req |-> base, err |-> errBadRequest]
        ELSE [req |-> [base EXCEPT !.routes = c.routes, !.ids = c.ids],
              err |-> errNone]

\* The request sent to run ([id, method, routes, ids]; accept and pretty only
\* shape the printed response), or the error that ends the exchange.
preprocessRequest(hreq) ==
    LET none == NoRequest
        base == [none EXCEPT !.method = hreq.method, !.id = hreq.id]
        ct == getContentType(hreq.contentType)
        c == parseContent(hreq.method, ct.contentType, hreq.body)
    IN  IF ~validMethod(hreq.method)
        THEN [req |-> none, err |-> errMethodNotSupported]
        ELSE IF ~canUseContent(hreq.method, hreq.id)
        THEN [req |-> base, err |-> errNone]
        ELSE IF ct.err # errNone
        THEN [req |-> base, err |-> ct.err]
        ELSE IF c.err # errNone
        THEN [req |-> base, err |-> c.err]
        ELSE IF hreq.id = "" /\ \E k \in 1..Len(c.routes) : c.routes[k].Id = ""
        THEN [req |-> base, err |-> errBadRequest]
        ELSE IF hreq.id # "" /\ Len(c.routes) > 1
        THEN [req |-> base, err |-> errBadRequest]
        ELSE [req |-> [base EXCEPT !.routes = c.routes, !.ids = c.ids],
              err |-> errNone]

\* ------------------------------------------------------------- inputs
RouteIDs == {"foo", "bar"}

SeqsUpTo(S, n) == UNION { [1..k -> S] : k \in 0..n }

\* The paths requests aim at: the working routes and a default route.
TargetIDs == RouteIDs \cup {DefaultSelfID}

Route(id, expr) == [Id |-> id, Expr |-> expr]

\* Documents sent to the root: lists of working routes, lists that name a
\* default route, lists with a route that has no id.
RootPayloadRoutes == { Route("foo", "x"), Route("foo", "y"), Route("bar", "x") }
RootPayloads ==
    SeqsUpTo(RootPayloadRoutes, MaxLen)
    \cup { << Route(DefaultSelfID, "x") >>,
           << Route(DefaultSelfID, "x"), Route("foo", "x") >>,
           << Route("", "x") >>,
           << Route("foo", "x"), Route("", "x") >> }

\* Documents sent to the path of one route: no route or one, with no id or
\* with another id, and documents of more routes than one.
IndividualPayloadRoutes == { Route("", "x"), Route("bar", "x") }
IndividualPayloads ==
    SeqsUpTo(IndividualPayloadRoutes, 1)
    \cup { [i \in 1..k |-> Route("", "x")] : k \in 2..MaxLen }

EskipBody(rs) == [kind |-> "eskip", routes |-> rs, text |-> <<>>]
TextBody(t) == [kind |-> "text", routes |-> <<>>, text |-> t]
UnreadableBody == [kind |-> "unreadable", routes |-> <<>>, text |-> <<>>]

\* Comma separated lists of up to MaxText fields; the empty text is not one
\* of them, eskip.Parse accepts it.
TextFields == { <<"foo">>, <<" ", "bar">>, <<>> }
JoinComma(fields) ==
    LET j[i \in 0..Len(fields)] ==
            IF i = 0 THEN <<>>
            ELSE IF i = 1 THEN fields[1]
            ELSE j[i - 1] \o <<",">> \o fields[i]
    IN  j[Len(fields)]
TextBodies ==
    ({ JoinComma(fs) : fs \in SeqsUpTo(TextFields, MaxText) } \ {<<>>})
    \cup { <<DefaultSelfID>>, <<DefaultSelfID, ",", "foo">> }

ContentTypes ==
    { <<>>, <<"text/plain", "charset=utf-8">>, <<"application/eskip">>,
      <<"text/json">> }

HTTPRequest(method, id, contentType, body) ==
    [method |-> method, id |-> id, contentType |-> contentType, body |-> body]

HTTPRequests ==
    { HTTPRequest(m, id, <<>>, EskipBody(<<>>)) :
        m \in {"GET", "DELETE"}, id \in TargetIDs }
    \cup { HTTPRequest(m, "", <<>>, EskipBody(<<>>)) :
             m \in {"GET", "HEAD", "OPTIONS", "TRACE"} }
    \cup { HTTPRequest("HEAD", "foo", <<>>, EskipBody(<<>>)),
           HTTPRequest("POST", "", <<>>, EskipBody(<< Route("foo", "x") >>)),
           HTTPRequest("POST", "foo", <<>>, EskipBody(<< Route("", "y") >>)),
           HTTPRequest("POST", DefaultSelfID, <<>>,
                       EskipBody(<< Route("", "y") >>)),
           HTTPRequest("PUT", "foo", <<>>, EskipBody(<< Route("", "y") >>)),
           HTTPRequest("PATCH", "foo", <<>>, EskipBody(<< Route("", "y") >>)) }
    \cup { HTTPRequest(m, "", <<"text/plain">>, EskipBody(rs)) :
             m \in {"PUT", "PATCH", "DELETE"}, rs \in RootPayloads }
    \cup { HTTPRequest(m, id, <<"text/plain">>, EskipBody(rs)) :
             m \in {"PUT", "PATCH"}, id \in TargetIDs,
             rs \in IndividualPayloads }
    \cup { HTTPRequest("DELETE", "", <<"text/plain">>, TextBody(t)) :
             t \in TextBodies }
    \cup { HTTPRequest("DELETE", "", ct, b) :
             ct \in ContentTypes,
             b \in { EskipBody(<< Route("foo", "x") >>), TextBody(<<"foo">>),
                     UnreadableBody } }
    \cup { HTTPRequest("PUT", "", <<>>, b) :
             b \in { TextBody(<<"foo">>), UnreadableBody } }

\* The requests preprocessRequest refuses, those ServeHTTP answers itself,
\* and those it sends to run.
Refused == { hreq \in HTTPRequests : preprocessRequest(hreq).err # errNone }
Described == { hreq \in HTTPRequests \ Refused : hreq.method = "OPTIONS" }
Sent == (HTTPRequests \ Refused) \ Described

\* ------------------------------------------------------------- run
MissedUpdate == [routes |-> <<>>, deletedIDs |-> <<>>, err |-> errMissedUpdate]

\* A run that puts the missed marker into the relay whatever the relay holds.
runRequestAlwaysMissed(req, all) ==
    LET h == handle(req, all)
    IN  [routes |-> h.routes,
         updateRelay |->
             IF hasData(h.update) THEN "update" ELSE updateRelay,
         updateToSend |->
             IF ~hasData(h.update) THEN updateToSend ELSE MissedUpdate,
         rsp |-> h.rsp,
         update |-> h.update]

\* A run that keeps the update the relay holds when one more commits.
runRequestKeepingFirst(req, all) ==
    LET h == handle(req, all)
    IN  [routes |-> h.routes,
         updateRelay |->
             IF hasData(h.update) THEN "update" ELSE updateRelay,
         updateToSend |->
             IF ~hasData(h.update) THEN updateToSend
             ELSE IF updateRelay = "nil" THEN h.update
             ELSE updateToSend,
         rsp |-> h.rsp,
         update |-> h.update]

\* A run that answers the writer with the missed update error.
runRequestReportingMissed(req, all) ==
    LET h == handle(req, all)
    IN  [routes |-> h.routes,
         updateRelay |->
             IF hasData(h.update) THEN "update" ELSE updateRelay,
         updateToSend |->
             IF ~hasData(h.update) THEN updateToSend
             ELSE IF updateRelay = "nil" THEN h.update
             ELSE MissedUpdate,
         rsp |-> IF hasData(h.update) /\ updateRelay # "nil"
                 THEN [h.rsp EXCEPT !.err = errMissedUpdate]
                 ELSE h.rsp,
         update |-> h.update]

\* The request case of run's select: handle the request, put a non-empty
\* update into the relay, answer.  all is what the handler reads of
\* append(s.defaults, s.routes...).
runRequest(req, all) ==
    LET h == handle(req, all)
    IN  [routes |-> h.routes,
         updateRelay |->
             IF hasData(h.update) THEN "update" ELSE updateRelay,
         updateToSend |->
             IF ~hasData(h.update) THEN updateToSend
             ELSE IF updateRelay = "nil" THEN h.update
             ELSE MissedUpdate,
         rsp |-> h.rsp,
         update |-> h.update]

\* No caller is in the middle of a step of its own: ServeHTTP has written
\* its answer and the consumer is done with what it got.  Those steps touch
\* nothing shared, so they are taken right after the step that leads to them.
Quiet == http = NoHTTP /\ consumer.pc \notin {"gotAll", "gotUpdate"}

\* The exchange as ServeHTTP has it when the answer is there: the request as
\* preprocessed, whether run got it, the response, and the update it made.
Exchange(hreq, req, sent, rsp, update) ==
    [method |-> hreq.method, id |-> hreq.id, req |-> req, sent |-> sent,
     rsp |-> rsp, update |-> update]

\* The history of the relay after run has committed update.
Committed(update) ==
    IF ~hasData(update) THEN pend
    ELSE [n |-> IF updateRelay = "nil" THEN 1 ELSE 2,
          first |-> IF updateRelay = "nil" THEN update ELSE ZeroUpdate,
          waiting |-> (updateRelay = "nil" \/ pend.waiting)
                      /\ consumer.pc = "LoadUpdate"]

\* The slots of the spare capacity of s.defaults that both run, appending
\* s.routes, and LoadAll, appending m.routes, write.
Overlap == 1..(IF Len(routes) < Len(consumer.m) THEN Len(routes)
               ELSE Len(consumer.m))

\* run's append races with LoadAll's: per slot, LoadAll writes before run
\* does, between run's write and its read, or after run's read.
RaceTimings == [Overlap -> {"before", "between", "after"}]

AllRead(t) ==
    defaults \o [i \in 1..Len(routes) |->
                    IF i \in DOMAIN t /\ t[i] = "between"
                    THEN consumer.m[i] ELSE routes[i]]

ConsumerRaced(t) ==
    IF \A i \in DOMAIN t : t[i] = "after"
    THEN consumer
    ELSE [consumer EXCEPT
            !.pc = "return",
            !.mem = [i \in 1..Len(consumer.m) |->
                        IF i \in DOMAIN t /\ t[i] = "before"
                        THEN routes[i] ELSE consumer.m[i]]]

\* run's append overwrites what LoadAll has appended and not yet read.
ConsumerOverwritten ==
    [consumer EXCEPT
        !.mem = [i \in 1..Len(consumer.mem) |->
                    IF i <= Len(routes) THEN routes[i] ELSE consumer.mem[i]]]

\* What run's append(s.defaults, s.routes...) reads, and what it leaves of
\* LoadAll's append, for each way the two can fall together.
Appended(req) ==
    IF ReadsAll(req) /\ InPlace(routes)
    THEN IF consumer.pc = "append" /\ InPlace(consumer.m)
         THEN { [all |-> AllRead(t), consumer |-> ConsumerRaced(t)] :
                  t \in RaceTimings }
         ELSE IF consumer.pc = "return"
         THEN { [all |-> defaults \o routes, consumer |-> ConsumerOverwritten] }
         ELSE { [all |-> defaults \o routes, consumer |-> consumer] }
    ELSE { [all |-> defaults \o routes, consumer |-> consumer] }

\* A run that goes on taking requests when it has seen s.stop closed.
RequestAfterStop(hreq) ==
    /\ Quiet
    /\ \E req \in {preprocessRequest(hreq).req} :
       \E a \in Appended(req) :
       \E r \in {runRequest(req, a.all)} :
          /\ routes' = r.routes
          /\ updateRelay' = r.updateRelay
          /\ updateToSend' = r.updateToSend
          /\ http' = Exchange(hreq, req, TRUE, r.rsp, r.update)
          /\ consumer' = a.consumer
          /\ pend' = Committed(r.update)
          /\ UNCHANGED <<defaults, stopClosed, running, since>>

\* ServeHTTP, for a request the filter sends to run: run takes it from
\* s.request, handles it and answers.
Request(hreq) ==
    /\ running
    /\ Quiet
    /\ \E req \in {preprocessRequest(hreq).req} :
       \E a \in Appended(req) :
       \E r \in {runRequest(req, a.all)} :
          /\ routes' = r.routes
          /\ updateRelay' = r.updateRelay
          /\ updateToSend' = r.updateToSend
          /\ http' = Exchange(hreq, req, TRUE, r.rsp, r.update)
          /\ consumer' = a.consumer
          /\ pend' = Committed(r.update)
          /\ UNCHANGED <<defaults, stopClosed, running, since>>

\* ServeHTTP, for a request preprocessRequest refuses: run never sees it.
Reject(hreq) ==
    LET pre == preprocessRequest(hreq)
    IN  /\ Quiet
        /\ http' = Exchange(hreq, pre.req, FALSE,
                            [ZeroResponse EXCEPT !.err = pre.err], ZeroUpdate)
        /\ UNCHANGED <<defaults, routes, updateRelay, updateToSend, stopClosed,
                       running, consumer, pend, since>>

\* ServeHTTP, for OPTIONS: answered with the API description.
Options(hreq) ==
    /\ Quiet
    /\ http' = Exchange(hreq, preprocessRequest(hreq).req, FALSE,
                        ZeroResponse, ZeroUpdate)
    /\ UNCHANGED <<defaults, routes, updateRelay, updateToSend, stopClosed,
                   running, consumer, pend, since>>

\* ServeHTTP writes the answer it has, serveError or writeResponse, and
\* returns.  It touches nothing but the exchange, so it is taken as the step
\* right after the answer.
WriteResponse ==
    /\ http # NoHTTP
    /\ http' = NoHTTP
    /\ UNCHANGED <<defaults, routes, updateRelay, updateToSend, stopClosed,
                   running, consumer, pend, since>>

\* A run that takes what LoadAll sends on s.getAll and does not reply.
ServeGetAllWithoutReply ==
    /\ running
    /\ Quiet
    /\ consumer.pc = "LoadAll"
    /\ since' = routes
    /\ UNCHANGED <<defaults, routes, updateRelay, updateToSend, stopClosed,
                   running, consumer, http, pend>>

\* case all := <-s.getAll, and LoadAll receiving the reply.
ServeGetAll ==
    /\ running
    /\ Quiet
    /\ consumer.pc = "LoadAll"
    /\ consumer' = [consumer EXCEPT !.pc = "append", !.m = routes]
    /\ since' = routes
    /\ UNCHANGED <<defaults, routes, updateRelay, updateToSend, stopClosed,
                   running, http, pend>>

\* A run that keeps the marker to send after it has sent it.
DeliverKeepingMarker ==
    /\ running
    /\ Quiet
    /\ updateRelay = "update"
    /\ consumer.pc = "LoadUpdate"
    /\ updateRelay' = IF updateToSend.err = errMissedUpdate THEN "update" ELSE "nil"
    /\ consumer' = [consumer EXCEPT
                      !.pc = "gotUpdate", !.ret = updateToSend,
                      !.resync = @ \/ updateToSend.err = errMissedUpdate]
    /\ pend' = NoPending
    /\ since' = routes
    /\ UNCHANGED <<defaults, routes, updateToSend, stopClosed, running, http>>

\* case updateRelay <- updateToSend, and LoadUpdate returning what it got.
Deliver ==
    /\ running
    /\ Quiet
    /\ updateRelay = "update"
    /\ consumer.pc = "LoadUpdate"
    /\ updateRelay' = "nil"
    /\ consumer' = [consumer EXCEPT
                      !.pc = "gotUpdate", !.ret = updateToSend,
                      !.resync = @ \/ updateToSend.err = errMissedUpdate]
    /\ pend' = NoPending
    /\ since' = routes
    /\ UNCHANGED <<defaults, routes, updateToSend, stopClosed, running, http>>

\* case <-s.stop
Stop ==
    /\ running
    /\ Quiet
    /\ stopClosed
    /\ running' = FALSE
    /\ UNCHANGED <<defaults, routes, updateRelay, updateToSend, stopClosed,
                   consumer, http, pend, since>>

\* ------------------------------------------------------------- callers
Close ==
    /\ ~stopClosed
    /\ Quiet
    /\ stopClosed' = TRUE
    /\ UNCHANGED <<defaults, routes, updateRelay, updateToSend, running,
                   consumer, http, pend, since>>

CallLoadAll ==
    /\ consumer.pc = "idle"
    /\ Quiet
    /\ consumer' = [consumer EXCEPT !.pc = "LoadAll"]
    /\ UNCHANGED <<defaults, routes, updateRelay, updateToSend, stopClosed,
                   running, http, pend, since>>

CallLoadUpdate ==
    /\ consumer.pc = "idle"
    /\ Quiet
    /\ consumer' = [consumer EXCEPT !.pc = "LoadUpdate"]
    /\ UNCHANGED <<defaults, routes, updateRelay, updateToSend, stopClosed,
                   running, http, pend, since>>

\* LoadAll's append(s.defaults, m.routes...): into the array of s.defaults
\* when it fits, into an array of its own, and returned, when not.
LoadAllAppend ==
    /\ consumer.pc = "append"
    /\ Quiet
    /\ consumer' =
          IF InPlace(consumer.m)
          THEN [consumer EXCEPT !.pc = "return", !.mem = consumer.m]
          ELSE [consumer EXCEPT
                  !.pc = "gotAll", !.resync = FALSE,
                  !.ret = [ZeroUpdate EXCEPT !.routes = defaults \o consumer.m]]
    /\ UNCHANGED <<defaults, routes, updateRelay, updateToSend, stopClosed,
                   running, http, pend, since>>

\* The caller reads the slice LoadAll made in the array of s.defaults.
LoadAllReturn ==
    /\ consumer.pc = "return"
    /\ Quiet
    /\ consumer' =
          [consumer EXCEPT
              !.pc = "gotAll", !.mem = <<>>, !.resync = FALSE,
              !.ret = [ZeroUpdate EXCEPT !.routes = defaults \o consumer.mem]]
    /\ UNCHANGED <<defaults, routes, updateRelay, updateToSend, stopClosed,
                   running, http, pend, since>>

\* The caller is done with what LoadAll or LoadUpdate returned.
ConsumerDone ==
    /\ consumer.pc \in {"gotAll", "gotUpdate"}
    /\ http = NoHTTP
    /\ consumer' = [IdleConsumer EXCEPT !.resync = consumer.resync]
    /\ UNCHANGED <<defaults, routes, updateRelay, updateToSend, stopClosed,
                   running, http, pend, since>>

Next ==
    \/ \E hreq \in Sent : Request(hreq)
    \/ \E hreq \in Refused : Reject(hreq)
    \/ \E hreq \in Described : Options(hreq)
    \/ WriteResponse
    \/ ServeGetAll
    \/ Deliver
    \/ Stop
    \/ Close
    \/ CallLoadAll
    \/ CallLoadUpdate
    \/ LoadAllAppend
    \/ LoadAllReturn
    \/ ConsumerDone

Spec == Init /\ [][Next]_vars

\* Callers that go on, and a run whose select may leave a case that is
\* ready aside for ever.
FairnessOfCallers ==
    /\ WF_vars(WriteResponse)
    /\ SF_vars(LoadAllAppend)
    /\ SF_vars(LoadAllReturn)
    /\ WF_vars(ConsumerDone)

\* select takes one of its ready cases at random, so a case that is ready
\* again and again is taken; a caller that can take a step of its own does.
\* LoadAll's steps wait, as the cases of select do, for the exchange at hand
\* to end (Quiet), so they are ready again and again, not all the time.
Fairness ==
    /\ SF_vars(ServeGetAll)
    /\ SF_vars(Deliver)
    /\ SF_vars(Stop)
    /\ WF_vars(WriteResponse)
    /\ SF_vars(LoadAllAppend)
    /\ SF_vars(LoadAllReturn)
    /\ WF_vars(ConsumerDone)

FairSpec == Init /\ [][Next]_vars /\ Fairness

\* The same program with fewer requests to choose from, for what does not
\* depend on what the requests carry: one route under a body or another,
\* sent to the root or to its path, read, deleted, refused and described.
LiveRequests ==
    { hreq \in HTTPRequests :
        /\ hreq.method \in {"GET", "PUT", "DELETE", "OPTIONS", "TRACE"}
        /\ hreq.id \in {"", "foo"}
        /\ hreq.contentType \in { <<>>, <<"text/plain">> }
        /\ hreq.body.kind = "eskip"
        /\ Len(hreq.body.routes) <= 1
        /\ \A k \in 1..Len(hreq.body.routes) : hreq.body.routes[k].Id = "foo" }

LiveNext ==
    \/ \E hreq \in Sent \cap LiveRequests : Request(hreq)
    \/ \E hreq \in Refused \cap LiveRequests : Reject(hreq)
    \/ \E hreq \in Described \cap LiveRequests : Options(hreq)
    \/ WriteResponse
    \/ ServeGetAll
    \/ Deliver
    \/ Stop
    \/ Close
    \/ CallLoadAll
    \/ CallLoadUpdate
    \/ LoadAllAppend
    \/ LoadAllReturn
    \/ ConsumerDone

LiveSpec == Init /\ [][LiveNext]_vars /\ Fairness

\* ------------------------------------------------------------- steps
\* run delivers the relay's update to LoadUpdate.
DeliverStep == consumer.pc = "LoadUpdate" /\ consumer'.pc = "gotUpdate"

\* run replies to LoadAll.
SnapshotStep == consumer.pc = "LoadAll" /\ consumer'.pc = "append"

\* LoadAll's caller has its result.
LoadedStep == consumer.pc \in {"append", "return"} /\ consumer'.pc = "gotAll"

\* run handles a request; it commits a non-empty update.
RunStep == http = NoHTTP /\ http'.sent
CommitStep == RunStep /\ hasData(http'.update)

\* The records of rs, the ids of ids, as sets.
Records(rs) == { rs[k] : k \in 1..Len(rs) }
Ids(ids) == { ids[k] : k \in 1..Len(ids) }

\* rs holds every record update upserts and no id it deletes.
Applied(update, rs) ==
    /\ \A r \in Records(update.routes) : HasId(rs, r.Id) /\ FirstWithId(rs, r.Id) = r
    /\ \A id \in Ids(update.deletedIDs) : ~HasId(rs, id)

\* update says what has changed from the routes prev to the routes next.
Describes(update, prev, next) ==
    /\ Records(update.routes) =
          { r \in Records(next) :
              ~HasId(prev, r.Id) \/ String(FirstWithId(prev, r.Id)) # String(r) }
    /\ Ids(update.deletedIDs) =
          { r.Id : r \in { q \in Records(prev) : ~HasId(next, q.Id) } }

\* run handles a request sent to the root, to the path of one route.
RootStep == RunStep /\ http'.req.id = ""
IndividualStep == RunStep /\ http'.req.id # ""

\* The ids a request names, in its routes or in its list of ids.
Named(req) == Ids(routesToIDs(req.routes)) \cup Ids(req.ids)

\* rs holds the route r, and no other route with its id.
Holds(rs, r) ==
    /\ r \in Records(rs)
    /\ Cardinality({ k \in 1..Len(rs) : rs[k].Id = r.Id }) = 1

\* The routes of the list S that a write stores: of each id that is not the
\* id of a default route the first route with it, in the order of S.
Stored(S) ==
    LET at == { k \in 1..Len(S) :
                  /\ ~HasId(defaults, S[k].Id)
                  /\ \A j \in 1..(k - 1) : S[j].Id # S[k].Id }
        nth[i \in 1..Cardinality(at)] ==
            CHOOSE k \in at : Cardinality({ j \in at : j < k }) = i - 1
    IN  [i \in 1..Cardinality(at) |-> S[nth[i]]]

\* ServeHTTP answers the request hreq, with or without sending it to run.
Answers(hreq) ==
    \/ hreq \in Sent /\ Request(hreq)
    \/ hreq \in Refused /\ Reject(hreq)
    \/ hreq \in Described /\ Options(hreq)

\* The requests to the path of one route whose body is a document of no
\* route or of more routes than one, under a content type that is supported.
MiscountedWrites ==
    { hreq \in HTTPRequests :
        /\ hreq.method \in {"PUT", "POST"}
        /\ hreq.id # ""
        /\ getContentType(hreq.contentType).err = errNone
        /\ hreq.body.kind = "eskip"
        /\ Len(hreq.body.routes) # 1 }

\* The requests that carry a document eskip.Parse accepts under a content
\* type that is supported.
Documents ==
    { hreq \in HTTPRequests :
        /\ getContentType(hreq.contentType).err = errNone
        /\ hreq.body.kind = "eskip" }

\* The writes to the root with a document in which a route has no id.
UnnamedWrites ==
    { hreq \in Documents :
        /\ hreq.method \in {"PUT", "POST", "PATCH", "DELETE"}
        /\ hreq.id = ""
        /\ HasId(hreq.body.routes, "") }

\* The DELETE requests to the root, under a content type that is supported,
\* whose body can be read and has no route without an id.
RootDeletes ==
    { hreq \in HTTPRequests :
        /\ hreq.method = "DELETE"
        /\ hreq.id = ""
        /\ getContentType(hreq.contentType).err = errNone
        /\ hreq.body.kind \in {"eskip", "text"}
        /\ ~HasId(hreq.body.routes, "") }

\* The names a text spells, its commas and spaces left out.
Names(text) == { text[k] : k \in 1..Len(text) } \ {",", " "}

\* ServeHTTP has answered hreq in this step.
Answered(hreq) ==
    /\ http'.method = hreq.method
    /\ http'.id = hreq.id
    /\ Answers(hreq)

\* The requests of RootDeletes, each with the request preprocessRequest makes
\* of it.
RootDeleteCases ==
    { [hreq |-> h, req |-> preprocessRequest(h).req] : h \in RootDeletes }

\* The view of a consumer that takes what LoadAll returns as its view and
\* applies to it what LoadUpdate returns without error, while it has done so
\* and what LoadAll returned was what run replied: the defaults and s.routes
\* as they were when run served its last call.
View == defaults \o since

\* The routes of view after update: the routes update upserts in place of
\* those with the same id, and none under the ids it deletes.
ApplyUpdate(view, update) ==
    { r \in Records(view) :
        /\ ~HasId(update.routes, r.Id)
        /\ r.Id \notin Ids(update.deletedIDs) }
    \cup Records(update.routes)

\* ------------------------------------------------------------- claims
\* C1: a non-empty update committed while the relay holds one turns the relay
\* into the missed marker; the next LoadUpdate returns the MissedUpdate error
\* with no routes and no deleted ids; and the LoadAll made after it returns
\* the defaults and s.routes as they were when run replied to it.
C1_MissedThenSnapshot ==
    [][/\ CommitStep /\ updateRelay = "update"
            => updateRelay' = "update" /\ updateToSend' = MissedUpdate
       /\ DeliverStep /\ pend.n = 2 => consumer'.ret = MissedUpdate
       /\ LoadedStep /\ consumer.resync
            => consumer'.ret = [ZeroUpdate EXCEPT !.routes = defaults \o consumer.m]
      ]_vars

\* C2: an update committed into the empty relay, with no other non-empty
\* update committed before run serves the next LoadUpdate, is what that
\* LoadUpdate returns: its routes, its deleted ids, no error.
C2_DeliversTheDiff ==
    [][DeliverStep /\ pend.n = 1
         => consumer'.ret = pend.first /\ consumer'.ret.err = errNone]_vars

C2_Witness ==
    /\ consumer.pc = "gotUpdate"
    /\ consumer.ret.err = errNone
    /\ Len(consumer.ret.routes) > 0
    /\ Len(consumer.ret.deletedIDs) > 0

\* C3: a LoadUpdate that is blocked when Close has been called returns.
C3_Released ==
    [](stopClosed /\ consumer.pc = "LoadUpdate"
         => <>(consumer.pc # "LoadUpdate"))

\* C4, as stated: a consumer that was blocked in LoadUpdate at each commit of
\* a non-empty update gets an update and never MissedUpdate.
C4_WaitingNeverMisses ==
    [][DeliverStep /\ pend.waiting => consumer'.ret.err = errNone]_vars

\* C4, amended: LoadUpdate returns MissedUpdate exactly when a second
\* non-empty update was committed before the first was delivered, whether or
\* not the consumer was blocked in LoadUpdate all along; a blocked consumer
\* gets the update when run delivers it before it commits another.
C4_MissesIffOverrun ==
    [][DeliverStep
         => /\ consumer'.ret.err = errMissedUpdate <=> pend.n = 2
            /\ consumer'.ret.err = errNone <=> pend.n = 1
            /\ pend.waiting /\ pend.n = 1 => consumer'.ret = pend.first]_vars

C4_Witness ==
    /\ consumer.pc = "LoadUpdate"
    /\ pend.waiting
    /\ pend.n = 2
    /\ updateRelay = "update"
    /\ updateToSend = MissedUpdate

\* C5: what LoadUpdate returns says exactly what has changed in s.routes
\* since run served the consumer's previous LoadAll or LoadUpdate.
C5_ChangesSinceLastCall ==
    [][DeliverStep
         => /\ consumer'.ret.err = errNone
            /\ Describes(consumer'.ret, since, routes)]_vars

\* C6: LoadAll returns the defaults and s.routes as they are when run replies
\* to it, and the reply leaves the relay as it is.
C6_SnapshotOfNow ==
    [][/\ SnapshotStep
            => consumer'.m = routes /\ UNCHANGED <<updateRelay, updateToSend>>
       /\ LoadedStep
            => consumer'.ret = [ZeroUpdate EXCEPT !.routes = defaults \o consumer.m]
      ]_vars

\* C7: no writer is answered with MissedUpdate: a write that commits a
\* non-empty update while the relay holds one is answered without error, its
\* update is applied to s.routes, and the relay holds the missed marker.
C7_OverrunSucceeds ==
    [][/\ http'.rsp.err # errMissedUpdate
       /\ CommitStep /\ updateRelay = "update"
            => /\ http'.rsp.err = errNone
               /\ Applied(http'.update, routes')
               /\ routes' # routes
               /\ updateRelay' = "update" /\ updateToSend' = MissedUpdate
      ]_vars

C7_Witness ==
    /\ http.sent
    /\ hasData(http.update)
    /\ http.rsp.err = errNone
    /\ pend.n = 2
    /\ updateToSend = MissedUpdate

\* C8: a request answered with an error leaves s.routes and the relay as
\* they were, makes no update, and is answered once: the exchange ends with
\* the answer.
C8_ErrorsChangeNothing ==
    [][/\ http'.rsp.err # errNone
            => /\ UNCHANGED <<defaults, routes, updateRelay, updateToSend>>
               /\ ~hasData(http'.update)
       /\ http.rsp.err # errNone
            => /\ http' = NoHTTP
               /\ UNCHANGED <<defaults, routes, updateRelay, updateToSend>>
      ]_vars

C8_Witness ==
    /\ http.sent
    /\ http.rsp.err = errNotFound
    /\ http.method = "DELETE"
    /\ Len(routes) > 0
    /\ updateRelay = "update"

\* C9: every request has the effect and the answer that handling it on the
\* s.routes of the moment run takes it has, and LoadAll returns the s.routes
\* of the moment run replies to it.
C9_Linearizable ==
    [][/\ RunStep
            => /\ routes' = handle(http'.req, defaults \o routes).routes
               /\ http'.rsp = handle(http'.req, defaults \o routes).rsp
               /\ http'.update = handle(http'.req, defaults \o routes).update
       /\ LoadedStep => consumer'.ret.routes = defaults \o consumer.m
       /\ SnapshotStep => consumer'.m = routes
      ]_vars

\* C10: PUT, POST or PATCH of one route to the path of a default route is
\* answered without error and changes nothing: not s.routes, not the
\* defaults, not the relay.
C10_DefaultTargetNoEffect ==
    [][(/\ RunStep
        /\ http'.method \in {"PUT", "POST", "PATCH"}
        /\ HasId(defaults, http'.id)
        /\ Len(http'.req.routes) = 1)
         => /\ http'.rsp.err = errNone
            /\ ~hasData(http'.update)
            /\ UNCHANGED <<defaults, routes, updateRelay, updateToSend>>]_vars

C10_Witness ==
    /\ http.sent
    /\ http.method = "PATCH"
    /\ http.id = DefaultSelfID
    /\ Len(http.req.routes) = 1
    /\ http.rsp.err = errNone
    /\ Len(routes) > 0

\* C11: a PUT, POST, PATCH or DELETE to the root whose body names a default
\* route, as a route or as an id, is answered without error and leaves that
\* route alone: the defaults stay as they are, no route with a default id gets
\* into s.routes or into the update, and the other routes of the body are
\* applied: stored with the body of their first occurrence by PUT, POST and
\* PATCH, gone from s.routes after DELETE.
C11_DefaultsIgnored ==
    [][(/\ RootStep
        /\ http'.method \in {"PUT", "POST", "PATCH", "DELETE"}
        /\ \E id \in Named(http'.req) : HasId(defaults, id))
         => /\ http'.rsp.err = errNone
            /\ defaults' = defaults
            /\ \A d \in Records(defaults) :
                  /\ ~HasId(routes', d.Id)
                  /\ ~HasId(http'.update.routes, d.Id)
                  /\ d.Id \notin Ids(http'.update.deletedIDs)
            /\ http'.method # "DELETE"
                 => \A id \in Named(http'.req) \ Ids(routesToIDs(defaults)) :
                       Holds(routes', FirstWithId(http'.req.routes, id))
            /\ http'.method = "DELETE"
                 => \A id \in Named(http'.req) : ~HasId(routes', id)]_vars

C11_Witness ==
    /\ http.sent
    /\ http.method = "PUT"
    /\ http.id = ""
    /\ http.req.routes = << Route(DefaultSelfID, "x"), Route("foo", "x") >>
    /\ http.update.routes = << Route("foo", "x") >>
    /\ Len(http.update.deletedIDs) = 1
    /\ routes = << Route("foo", "x") >>

\* C12: s.defaults is what New made of its options, in every state and
\* across every step; no route of s.routes has the id of a default route; and
\* every default route is there, as New stored it and once, in what every GET
\* or HEAD of the root answers and in what every LoadAll returns.
C12_DefaultsKept ==
    [][/\ defaults \in { New(o) : o \in DefaultRoutesOptions }
       /\ defaults' = defaults
       /\ \A d \in Records(defaults) : ~HasId(routes', d.Id)
       /\ RootStep /\ http'.method \in {"GET", "HEAD"}
            => /\ http'.rsp.err = errNone
               /\ \A d \in Records(defaults) : Holds(http'.rsp.routes, d)
       /\ LoadedStep
            => /\ consumer'.ret.err = errNone
               /\ \A d \in Records(defaults) : Holds(consumer'.ret.routes, d)
      ]_vars

C12_Witness ==
    /\ consumer.pc = "gotAll"
    /\ Len(defaults) > Len(SelfRoutes)
    /\ Len(consumer.ret.routes) = Len(defaults) + 2
    /\ consumer.ret.routes # defaults \o consumer.m

\* C13: GET or HEAD of the path of a default route is answered with that
\* route, and DELETE of the same path with NotFound; both leave s.routes, the
\* defaults and the relay as they are and make no update.
C13_ReadableNotDeletable ==
    [][(IndividualStep /\ HasId(defaults, http'.id))
         => /\ http'.method \in {"GET", "HEAD"}
                 => /\ http'.rsp.err = errNone
                    /\ http'.rsp.withContent
                    /\ http'.rsp.routes = << FirstWithId(defaults, http'.id) >>
            /\ http'.method = "DELETE" => http'.rsp.err = errNotFound
            /\ http'.method \in {"GET", "HEAD", "DELETE"}
                 => /\ ~hasData(http'.update)
                    /\ UNCHANGED <<defaults, routes, updateRelay, updateToSend>>
      ]_vars

C13_Witness ==
    /\ http.sent
    /\ http.method = "DELETE"
    /\ http.id = DefaultSelfID
    /\ http.rsp.err = errNotFound
    /\ Len(routes) > 0
    /\ consumer.pc = "return"

\* C14: after PUT or POST of the list S to the root, s.routes is the routes
\* of S, of each id the first and none with the id of a default route, and
\* nothing else: no route that was there before under an id S does not name
\* is left.
C14_ReplaceIsSetReplace ==
    [][(RootStep /\ http'.method \in {"PUT", "POST"})
         => /\ http'.rsp.err = errNone
            /\ routes' = Stored(http'.req.routes)
            /\ \A r \in Records(routes) :
                  ~HasId(http'.req.routes, r.Id) => ~HasId(routes', r.Id)]_vars

C14_Witness ==
    /\ http.sent
    /\ http.method = "PUT"
    /\ http.id = ""
    /\ http.req.routes = << Route("foo", "y"), Route("foo", "x") >>
    /\ routes = << Route("foo", "y") >>
    /\ http.update.deletedIDs = << "bar" >>
    /\ http.update.routes = << Route("foo", "y") >>

\* C15: the update of a PUT or POST to the root that takes s.routes from prev
\* to next upserts the routes of next whose id prev does not have or has with
\* another body, each once, and deletes the ids of prev that next does not
\* have, each once.  From no routes, PUT of foo and bar upserts foo and bar
\* and deletes nothing; from there, PUT of the same foo alone upserts nothing
\* and deletes bar.
C15_ReplaceDiff ==
    [][(RootStep /\ http'.method \in {"PUT", "POST"})
         => /\ Describes(http'.update, routes, routes')
            /\ http'.update.err = errNone
            /\ \A r \in Records(http'.update.routes) :
                  Holds(http'.update.routes, r)
            /\ Cardinality(Ids(http'.update.deletedIDs))
                  = Len(http'.update.deletedIDs)
            /\ (/\ routes = <<>>
                /\ http'.req.routes = << Route("foo", "x"), Route("bar", "x") >>)
                 => /\ http'.update.routes = http'.req.routes
                    /\ http'.update.deletedIDs = <<>>
            /\ (/\ routes = << Route("foo", "x"), Route("bar", "x") >>
                /\ http'.req.routes = << Route("foo", "x") >>)
                 => /\ http'.update.routes = <<>>
                    /\ http'.update.deletedIDs = << "bar" >>]_vars

C15_Witness ==
    /\ http.sent
    /\ http.method = "PUT"
    /\ http.id = ""
    /\ http.req.routes = << Route("foo", "x") >>
    /\ http.update.routes = <<>>
    /\ http.update.deletedIDs = << "bar" >>
    /\ routes = << Route("foo", "x") >>

\* C16: PUT or POST to the root of a list whose routes are what s.routes
\* holds, as it is right after the same PUT or POST, makes an empty update:
\* no routes, no deleted ids.  It leaves s.routes as it is and puts nothing
\* into the relay: what the relay holds stays there, and an empty relay
\* stays empty.
C16_ReplaceTwice ==
    [][(/\ RootStep
        /\ http'.method \in {"PUT", "POST"}
        /\ routes = Stored(http'.req.routes))
         => /\ http'.rsp.err = errNone
            /\ http'.update = ZeroUpdate
            /\ routes' = routes
            /\ UNCHANGED <<updateRelay, updateToSend, pend>>]_vars

C16_Witness ==
    /\ http.sent
    /\ http.method = "PUT"
    /\ http.id = ""
    /\ Len(http.req.routes) = 2
    /\ routes = Stored(http.req.routes)
    /\ Len(routes) = 2
    /\ http.update = ZeroUpdate
    /\ updateRelay = "update"
    /\ pend.n = 1
    /\ Len(pend.first.routes) = 2

\* C17: after PATCH of the list S to the root, every route s.routes had
\* under an id S does not name is still there as it was, every route S
\* stores (of each id the first, none with a default id) is there with the
\* body S gives it, s.routes holds nothing else, and the update deletes no
\* id.
C17_UpsertNeverDeletes ==
    [][(RootStep /\ http'.method = "PATCH")
         => /\ http'.rsp.err = errNone
            /\ \A r \in Records(routes) :
                  ~HasId(http'.req.routes, r.Id) => Holds(routes', r)
            /\ \A r \in Records(Stored(http'.req.routes)) : Holds(routes', r)
            /\ Ids(routesToIDs(routes'))
                  = Ids(routesToIDs(routes))
                    \cup Ids(routesToIDs(Stored(http'.req.routes)))
            /\ http'.update.deletedIDs = <<>>]_vars

C17_Witness ==
    /\ http.sent
    /\ http.method = "PATCH"
    /\ http.id = ""
    /\ http.req.routes = << Route("foo", "y") >>
    /\ http.update.routes = << Route("foo", "y") >>
    /\ Records(routes) = { Route("foo", "y"), Route("bar", "x") }

\* C18: after PUT, POST or PATCH to the root of a list in which more routes
\* than one have the same id, not the id of a default route, s.routes holds
\* one route with that id, and it is the first the list has with it; the
\* update, too, holds it once.
C18_DedupOnWrite ==
    [][(RootStep /\ http'.method \in {"PUT", "POST", "PATCH"})
         => \A id \in Ids(routesToIDs(http'.req.routes)) :
               (/\ ~HasId(defaults, id)
                /\ Cardinality({ k \in 1..Len(http'.req.routes) :
                                   http'.req.routes[k].Id = id }) > 1)
                 => /\ Holds(routes', FirstWithId(http'.req.routes, id))
                    /\ Cardinality({ k \in 1..Len(http'.update.routes) :
                                       http'.update.routes[k].Id = id }) <= 1
      ]_vars

C18_Witness ==
    /\ http.sent
    /\ http.method = "PATCH"
    /\ http.id = ""
    /\ http.req.routes = << Route("foo", "x"), Route("foo", "y") >>
    /\ http.update.routes = << Route("foo", "x") >>
    /\ Records(routes) = { Route("foo", "x"), Route("bar", "x") }

\* C19: PUT or POST of one route to the path of a route that is no default
\* route stores the route under the id of the path, whatever id the body
\* gives it: s.routes then holds it once, with the body sent, and every other
\* route as before; and GET or HEAD of the path of a route s.routes holds is
\* answered with that route as s.routes holds it.
C19_PutThenReadOne ==
    [][/\ (/\ IndividualStep
           /\ http'.method \in {"PUT", "POST"}
           /\ ~HasId(defaults, http'.id)
           /\ Len(http'.req.routes) = 1)
            => /\ http'.rsp.err = errNone
               /\ Holds(routes', Route(http'.id, http'.req.routes[1].Expr))
               /\ \A r \in Records(routes) : r.Id # http'.id => Holds(routes', r)
               /\ Ids(routesToIDs(routes'))
                     = Ids(routesToIDs(routes)) \cup {http'.id}
       /\ (/\ IndividualStep
           /\ http'.method \in {"GET", "HEAD"}
           /\ HasId(routes, http'.id))
            => /\ http'.rsp.err = errNone
               /\ http'.rsp.routes = << FirstWithId(routes, http'.id) >>
      ]_vars

\* C20: PUT or POST to the path of one route, of a default route too, with a
\* document of no route or of more routes than one is answered with
\* BadRequest, makes no update and leaves s.routes, the defaults and the
\* relay as they are.
C20_OneRouteExpected ==
    [][\A hreq \in MiscountedWrites :
          (http'.method = hreq.method /\ http'.id = hreq.id /\ Answers(hreq))
            => /\ http'.rsp.err = errBadRequest
               /\ ~hasData(http'.update)
               /\ UNCHANGED <<defaults, routes, updateRelay, updateToSend>>
      ]_vars

C20_Witness ==
    /\ http.sent
    /\ http.method = "PUT"
    /\ http.id = DefaultSelfID
    /\ Len(http.req.routes) = 0
    /\ http.rsp.err = errBadRequest
    /\ Len(routes) > 0
    /\ updateRelay = "update"

\* C21: PATCH to the path of one route is answered with NotFound when
\* neither the defaults nor s.routes have the id, whatever the body holds;
\* with BadRequest when they have it and the body is not a document of one
\* route; and otherwise, the id being none of a default route, stores the
\* route sent under the id of the path and leaves every other route.
C21_PatchTestsInOrder ==
    [][\A hreq \in Documents :
          (hreq.method = "PATCH" /\ hreq.id # "" /\ Answered(hreq))
            => IF ~HasId(defaults \o routes, hreq.id)
               THEN /\ http'.rsp.err = errNotFound
                    /\ routes' = routes
               ELSE IF Len(hreq.body.routes) # 1
               THEN /\ http'.rsp.err = errBadRequest
                    /\ routes' = routes
               ELSE /\ http'.rsp.err = errNone
                    /\ ~HasId(defaults, hreq.id)
                         => /\ Holds(routes',
                                     Route(hreq.id, hreq.body.routes[1].Expr))
                            /\ \A r \in Records(routes) :
                                  r.Id # hreq.id => Holds(routes', r)
                            /\ Len(routes') = Len(routes)
      ]_vars

\* C22: DELETE of the path of one route is answered with NotFound when
\* s.routes does not have the id; when it has, the route with the id is
\* taken out of s.routes and every other route left, and the update deletes
\* that id alone and upserts nothing; and GET or HEAD of the path of an id
\* that neither the defaults nor s.routes have is answered with NotFound.
C22_DeleteThenReadOne ==
    [][/\ (IndividualStep /\ http'.method = "DELETE")
            => IF ~HasId(routes, http'.id)
               THEN /\ http'.rsp.err = errNotFound
                    /\ routes' = routes
                    /\ http'.update = ZeroUpdate
               ELSE /\ http'.rsp.err = errNone
                    /\ routes' = SelectSeq(routes, LAMBDA r : r.Id # http'.id)
                    /\ http'.update =
                          [ZeroUpdate EXCEPT !.deletedIDs = << http'.id >>]
       /\ (/\ IndividualStep
           /\ http'.method \in {"GET", "HEAD"}
           /\ ~HasId(defaults \o routes, http'.id))
            => http'.rsp.err = errNotFound
      ]_vars

\* C23: DELETE to the root, naming routes by a list of ids or by a document
\* of routes, of which s.routes has some and not others, is answered without
\* error, takes out of s.routes the routes it has under the ids named and
\* leaves the others as they are and where they are; the update upserts
\* nothing and deletes, each once, the ids of the routes taken out.
C23_DeleteMixture ==
    [][(RootStep /\ http'.method = "DELETE")
         => /\ http'.rsp.err = errNone
            /\ routes' = SelectSeq(routes, LAMBDA r : r.Id \notin Named(http'.req))
            /\ http'.update.routes = <<>>
            /\ http'.update.err = errNone
            /\ Ids(http'.update.deletedIDs)
                  = Ids(routesToIDs(routes)) \cap Named(http'.req)
            /\ Cardinality(Ids(http'.update.deletedIDs))
                  = Len(http'.update.deletedIDs)]_vars

C23_Witness ==
    /\ http.sent
    /\ http.method = "DELETE"
    /\ http.id = ""
    /\ http.req.ids = << "foo", "bar" >>
    /\ http.update.deletedIDs = << "bar" >>
    /\ http.rsp.err = errNone
    /\ routes = <<>>

\* C24: PUT, POST, PATCH or DELETE to the root with a document in which a
\* route has no id is answered with BadRequest without run getting the
\* request: no route of the document is stored or deleted, s.routes and the
\* relay stay as they are.
C24_RouteWithoutID ==
    [][\A hreq \in UnnamedWrites :
          Answered(hreq)
            => /\ http'.rsp.err = errBadRequest
               /\ ~http'.sent
               /\ ~hasData(http'.update)
               /\ UNCHANGED <<defaults, routes, updateRelay, updateToSend>>
      ]_vars

\* No other PATCH to the root is answered with BadRequest.
C24_Witness ==
    /\ ~http.sent
    /\ http.method = "PATCH"
    /\ http.id = ""
    /\ http.rsp.err = errBadRequest
    /\ Len(routes) > 0
    /\ updateRelay = "update"

\* C25: a request with a method that is none of OPTIONS, HEAD, GET, PUT,
\* POST, PATCH and DELETE is answered with MethodNotSupported without run
\* getting it: s.routes, the defaults and the relay stay as they are, and no
\* update is made.
C25_MethodNotSupported ==
    [][(http = NoHTTP /\ http' # NoHTTP
        /\ http'.method \notin
              {"OPTIONS", "HEAD", "GET", "PUT", "POST", "PATCH", "DELETE"})
         => /\ http'.rsp.err = errMethodNotSupported
            /\ ~http'.sent
            /\ ~hasData(http'.update)
            /\ UNCHANGED <<defaults, routes, updateRelay, updateToSend, pend>>
      ]_vars

C25_Witness ==
    /\ http.method = "TRACE"
    /\ ~http.sent
    /\ http.rsp.err = errMethodNotSupported
    /\ Len(routes) > 0
    /\ updateRelay = "update"
    /\ consumer.pc = "LoadUpdate"

\* C26: no two routes of s.routes have the same id, whatever has been sent:
\* lists that repeat an id, routes under ids s.routes has already.
C26_UniqueIds ==
    \A j, k \in 1..Len(routes) : routes[j].Id = routes[k].Id => j = k

C26_Witness ==
    /\ http.sent
    /\ http.method = "PATCH"
    /\ http.id = ""
    /\ http.req.routes = << Route("foo", "y"), Route("foo", "x") >>
    /\ http.update.routes = << Route("foo", "y") >>
    /\ pend.n = 2
    /\ Len(routes) = 2

\* C27: no route of s.routes has the id of a default route, whatever has
\* been sent to the root or to the path of a default route.
C27_DisjointFromDefaults ==
    \A k \in 1..Len(routes) : ~HasId(defaults, routes[k].Id)

C27_Witness ==
    /\ http.sent
    /\ http.method = "PATCH"
    /\ http.id = ""
    /\ http.req.routes = << Route(DefaultSelfID, "x"), Route("foo", "x") >>
    /\ http.update.routes = << Route("foo", "x") >>
    /\ Len(routes) = 2
    /\ Len(defaults) > Len(SelfRoutes)

\* C28: when run has seen s.stop closed and returned, it stays so: from then
\* on no request is handled, no LoadAll is replied to, no update is
\* delivered to LoadUpdate, and s.routes, the defaults and the relay stay as
\* they are.
C28_StoppedForGood ==
    [][~running
         => /\ ~running'
            /\ ~RunStep
            /\ ~SnapshotStep
            /\ ~DeliverStep
            /\ UNCHANGED <<defaults, routes, updateRelay, updateToSend,
                           stopClosed, pend, since>>]_vars

\* A LoadAll called, and an update in the relay, with run gone.
C28_Witness ==
    /\ ~running
    /\ stopClosed
    /\ consumer.pc = "LoadAll"
    /\ updateRelay = "update"
    /\ Len(routes) > 0
    /\ http = NoHTTP

\* C29: LoadUpdate stays blocked as long as the relay is empty; what it
\* returns is an update that upserts or deletes something, without error, or
\* the MissedUpdate error alone; a request whose update is empty leaves the
\* relay as it is and a blocked LoadUpdate blocked; and what the relay holds
\* is delivered once: the delivery empties the relay, and every delivery
\* follows a commit made after the delivery before it.
C29_OnlyUpdatesWithData ==
    [][/\ consumer.pc = "LoadUpdate" /\ updateRelay = "nil"
            => consumer'.pc = "LoadUpdate"
       /\ DeliverStep
            => /\ updateRelay = "update"
               /\ updateRelay' = "nil"
               /\ pend.n > 0
               /\ pend'.n = 0
               /\ consumer'.ret = updateToSend
               /\ \/ /\ consumer'.ret.err = errNone
                     /\ Len(consumer'.ret.routes) + Len(consumer'.ret.deletedIDs) > 0
                  \/ consumer'.ret = MissedUpdate
       /\ RunStep /\ http'.update = ZeroUpdate
            => /\ UNCHANGED <<updateRelay, updateToSend, pend>>
               /\ consumer.pc = "LoadUpdate" => consumer'.pc = "LoadUpdate"
      ]_vars

\* A PUT that changes nothing, handled while LoadUpdate waits for the empty
\* relay.
C29_Witness ==
    /\ consumer.pc = "LoadUpdate"
    /\ updateRelay = "nil"
    /\ http.sent
    /\ http.method = "PUT"
    /\ http.rsp.err = errNone
    /\ http.update = ZeroUpdate
    /\ Len(routes) > 0

\* C30: s.routes is empty when run starts, and a step changes it only when
\* run handles a PUT, POST, PATCH or DELETE that it answers without error;
\* when the routes it holds change, and not their order alone, the request
\* makes an update with data.  GET and HEAD, of the root and of the
\* path of one route, leave s.routes and the relay as they are; the reply to
\* LoadAll, LoadAll's return and the delivery to LoadUpdate leave s.routes
\* as it is.
C30_OnlyWritesChange ==
    /\ routes = <<>>
    /\ [][/\ routes' # routes
               => /\ RunStep
                  /\ http'.method \in {"PUT", "POST", "PATCH", "DELETE"}
                  /\ http'.rsp.err = errNone
          /\ Records(routes') # Records(routes) => hasData(http'.update)
          /\ RunStep /\ http'.method \in {"GET", "HEAD"}
               => UNCHANGED <<routes, updateRelay, updateToSend, pend>>
          /\ SnapshotStep \/ LoadedStep \/ DeliverStep => routes' = routes
         ]_vars

C30_Witness ==
    /\ http.sent
    /\ http.method = "HEAD"
    /\ http.id = "foo"
    /\ http.rsp.err = errNone
    /\ updateRelay = "update"
    /\ pend.n = 1
    /\ Len(routes) = 2
    /\ consumer.pc = "return"

\* C31: DELETE to the root with a body that eskip.Parse does not accept is
\* answered with BadRequest, with nothing deleted, when the content type is
\* application/eskip; under the other content types that are supported the
\* body is a list of ids, separated by commas, spaces not counting, and the
\* routes s.routes has under these ids are deleted.  A body eskip.Parse
\* accepts is the list of the routes to delete, and no list of ids, under
\* every content type.
C31_RoutesOrIds ==
    [][\A c \in RootDeleteCases :
          (http'.req = c.req /\ Answered(c.hreq))
            => LET hreq == c.hreq
               IN
               IF hreq.body.kind = "eskip"
               THEN /\ http'.sent
                    /\ http'.req.routes = hreq.body.routes
                    /\ http'.req.ids = <<>>
               ELSE IF getContentType(hreq.contentType).contentType
                          = "application/eskip"
               THEN /\ http'.rsp.err = errBadRequest
                    /\ ~http'.sent
                    /\ ~hasData(http'.update)
                    /\ UNCHANGED <<routes, updateRelay, updateToSend>>
               ELSE /\ http'.sent
                    /\ http'.rsp.err = errNone
                    /\ http'.req.routes = <<>>
                    /\ Ids(http'.req.ids) \ {""} = Names(hreq.body.text)
                    /\ routes' = SelectSeq(routes,
                                   LAMBDA r : r.Id \notin Names(hreq.body.text))
                    /\ Ids(http'.update.deletedIDs)
                          = Ids(routesToIDs(routes)) \cap Names(hreq.body.text)
      ]_vars

C31_Witness ==
    /\ http.sent
    /\ http.method = "DELETE"
    /\ http.id = ""
    /\ http.req.routes = <<>>
    /\ http.req.ids = << "foo", "bar" >>
    /\ http.update.deletedIDs = << "foo", "bar" >>
    /\ routes = <<>>

\* C32: the view of a consumer that calls LoadAll first and after every
\* MissedUpdate, and applies every update LoadUpdate returns without error:
\* what LoadAll returns, and the view takes, is the defaults and s.routes as
\* run replied; an update delivered without error, applied to the view, gives
\* the defaults and the routes s.routes holds, which are those it held when
\* the update was committed, also when run replied to a LoadAll in between.
C32_ViewFollows ==
    [][/\ LoadedStep => consumer'.ret.routes = View
       /\ (DeliverStep /\ consumer'.ret.err = errNone /\ ~consumer.resync)
            => ApplyUpdate(View, consumer'.ret) = Records(defaults \o routes)
       /\ (pend.n = 1 /\ pend'.n = 1) => Records(routes') = Records(routes)
      ]_vars

\* C33: PUT, POST, PATCH or DELETE makes an update that upserts or deletes
\* something when, and only when, the routes s.routes holds, as ids with
\* their bodies, are not what they were; such an update goes into the relay,
\* and a request that leaves the routes as they were (a route put again as
\* it is, ids deleted that s.routes does not have, default routes alone
\* named) leaves the relay as it was.
C33_UpdateIffChange ==
    [][(RunStep /\ http'.method \in {"PUT", "POST", "PATCH", "DELETE"})
         => /\ Len(http'.update.routes) + Len(http'.update.deletedIDs) > 0
                  <=> Records(routes') # Records(routes)
            /\ http'.update.err = errNone
            /\ Records(routes') # Records(routes)
                 => /\ updateRelay' = "update"
                    /\ updateToSend' \in {http'.update, MissedUpdate}
            /\ Records(routes') = Records(routes)
                 => UNCHANGED <<updateRelay, updateToSend, pend>>]_vars

\* PUT of a route to the path it is stored under, as it is stored.
C33_Witness ==
    /\ http.sent
    /\ http.method = "PUT"
    /\ http.id = "foo"
    /\ Len(http.req.routes) = 1
    /\ http.rsp.err = errNone
    /\ http.update = ZeroUpdate
    /\ HasId(routes, "foo")
    /\ updateRelay = "nil"

\* C34: no update names a default route: neither the update a request
\* makes nor the update the relay holds upserts a route with the id of a
\* default route or deletes such an id, whatever the request names.
C34_NoDefaultInUpdates ==
    \A d \in Records(defaults) :
       /\ ~HasId(http.update.routes, d.Id)
       /\ d.Id \notin Ids(http.update.deletedIDs)
       /\ ~HasId(updateToSend.routes, d.Id)
       /\ d.Id \notin Ids(updateToSend.deletedIDs)

C34_Witness ==
    /\ http.sent
    /\ http.method = "DELETE"
    /\ http.id = ""
    /\ http.req.ids = << DefaultSelfID, "foo" >>
    /\ http.update.deletedIDs = << "foo" >>
    /\ updateToSend = http.update
    /\ updateRelay = "update"

\* C35: the update a request makes fits s.routes before and after it: the
\* routes it upserts have ids of their own and are in s.routes afterwards as
\* upserted; the ids it deletes, each once, were in s.routes before and are
\* not afterwards; and no id is upserted and deleted at once.
C35_UpdateWellFormed ==
    [][RunStep
         => /\ \A r \in Records(http'.update.routes) :
                  /\ Holds(http'.update.routes, r)
                  /\ Holds(routes', r)
                  /\ r.Id \notin Ids(http'.update.deletedIDs)
            /\ \A id \in Ids(http'.update.deletedIDs) :
                  /\ HasId(routes, id)
                  /\ ~HasId(routes', id)
            /\ Cardinality(Ids(http'.update.deletedIDs))
                  = Len(http'.update.deletedIDs)]_vars

C35_Witness ==
    /\ http.sent
    /\ http.method = "PUT"
    /\ http.id = ""
    /\ http.update.routes = << Route("bar", "x"), Route("foo", "y") >>
    /\ http.update.deletedIDs = <<>>
    /\ Len(routes) = 2
    /\ updateToSend = MissedUpdate

\* C36: run answers what it takes, once.  The step in which it handles a
\* request is the step in which ServeHTTP gets the answer, also when s.stop
\* is closed and run has not seen it; ServeHTTP then writes the answer and
\* is done, and nothing else changes s.routes or puts an update into the
\* relay.  The step in which run takes LoadAll's channel is the step in
\* which LoadAll gets the reply, and LoadAll goes on to return from there.
\* Nobody waits for ever on a run that goes on: every exchange ends, and
\* every LoadAll returns unless run stops.
C36_AnsweredOnce ==
    /\ [][/\ (routes' # routes \/ updateToSend' # updateToSend) => RunStep
          /\ RunStep
               => /\ running /\ running'
                  /\ http'.rsp.err \in {errNone, errNotFound, errBadRequest}
          /\ http # NoHTTP => http' = NoHTTP
          /\ SnapshotStep => running /\ consumer'.m = routes
          /\ consumer.pc \in {"append", "return"}
               => consumer'.pc \in {"append", "return", "gotAll"}
          /\ consumer'.pc = "gotAll" => consumer.pc \in {"append", "return"}
         ]_vars
    /\ [](http # NoHTTP => <>(http = NoHTTP))
    /\ [](consumer.pc = "LoadAll" => <>(consumer.pc = "gotAll" \/ ~running))

\* A request run has handled and answered with s.stop closed already.
C36_Witness ==
    /\ http.sent
    /\ http.method = "PUT"
    /\ hasData(http.update)
    /\ stopClosed
    /\ running
    /\ consumer.pc = "LoadAll"

\* C37: the marker of a missed update does not stay.  When LoadUpdate has
\* returned MissedUpdate, run has nothing left to send; the next update with
\* data that run commits after that is kept to send as it is, without an
\* error; and when no other update has been committed before LoadUpdate is
\* served again, LoadUpdate returns that update, not an error.
C37_MarkerNotSticky ==
    [][/\ DeliverStep /\ consumer'.ret.err = errMissedUpdate
            => /\ consumer'.ret = MissedUpdate
               /\ consumer'.resync
               /\ updateRelay' = "nil"
               /\ pend' = NoPending
       /\ consumer.resync /\ CommitStep /\ updateRelay = "nil"
            => /\ updateRelay' = "update"
               /\ updateToSend' = http'.update
               /\ updateToSend'.err = errNone
               /\ pend'.n = 1
               /\ pend'.first = http'.update
       /\ consumer.resync /\ DeliverStep /\ pend.n = 1
            => /\ consumer'.ret = pend.first
               /\ consumer'.ret.err = errNone
               /\ hasData(consumer'.ret)
               /\ updateRelay' = "nil"
      ]_vars

\* LoadUpdate has returned MissedUpdate before, and now an update with data.
C37_Witness ==
    /\ consumer.pc = "gotUpdate"
    /\ consumer.resync
    /\ consumer.ret.err = errNone
    /\ hasData(consumer.ret)
    /\ updateRelay = "nil"

\* C38, as stated: when run has an update to send and LoadUpdate is waiting
\* for one, LoadUpdate gets what run has to send, whatever requests are
\* sent in the meantime.
C38_Delivered ==
    /\ [][DeliverStep => consumer'.ret = updateToSend /\ updateRelay' = "nil"]_vars
    /\ [](updateRelay = "update" /\ running /\ consumer.pc = "LoadUpdate"
            => <>(consumer.pc = "gotUpdate"))

\* C38: when run has an update to send and LoadUpdate is waiting for one,
\* either LoadUpdate gets what run has to send at that time, whatever
\* requests are sent in the meantime, or run takes case <-s.stop and
\* returns.
C38_DeliveredOrStopped ==
    /\ [][DeliverStep => consumer'.ret = updateToSend /\ updateRelay' = "nil"]_vars
    /\ [](updateRelay = "update" /\ running /\ consumer.pc = "LoadUpdate"
            => <>(consumer.pc = "gotUpdate" \/ ~running))

\* LoadUpdate is waiting while run has handled a write after another, and
\* has something to send.
C38_Witness ==
    /\ updateRelay = "update"
    /\ running
    /\ consumer.pc = "LoadUpdate"
    /\ http.sent
    /\ http.method = "PUT"
    /\ pend.n = 2
    /\ pend.waiting

====
